---- MODULE Spec2Model ----
(***************************************************************************)
(* Model of nprintml.net.step.Net.generate_npts: the generator that       *)
(* submits one execute_nprint call per filtered item to a                 *)
(* ThreadPoolExecutor, waits for completions, tops the pool off and       *)
(* yields the results to its caller; of the persistence of the outputs    *)
(* (make_output_path, execute_nprint); of Net.filter_pcaps; of            *)
(* nprintml.util.PrimedIterator.prime and the priming in Net.__call__;    *)
(* and of the generator's other exits (an exception, close).              *)
(*                                                                        *)
(* The filtered items are numbered 1..total in the order file_stream      *)
(* produces them; a future is identified with the item it was submitted   *)
(* for.                                                                   *)
(***************************************************************************)
EXTENDS Integers, Sequences, FiniteSets, TLC

\* Bounds of the model.
MaxItems == 3
MaxConcurrency == 2
MaxQueue == 2
MaxLen == 3
MaxFiles == 5

VARIABLES
    total,        \* number of items file_stream will produce (N)
    concurrency,  \* self.args.concurrency (C)
    queue_max,    \* NPRINT_QUEUE_MAX (Q)
    drawn,        \* items already drawn from file_stream
    exhausted,    \* file_stream has raised StopIteration
    task,         \* item -> state of its future / execute_nprint call
    workQueue,    \* executor's FIFO of submitted calls not yet picked up
    futures,      \* the generator's local `futures`
    completed,    \* the part of `completed` the for loop has not reached
    future,       \* the for loop's current `future` (0: none)
    pc,           \* position of the generator
    submits,      \* history: item -> number of executor.submit calls
    finished,     \* history: items in the order their calls finished
    collectedAt,  \* history: item -> Len(finished) when wait returned it
    yielded,      \* history: items in the order their results were yielded
    absorbed,     \* history: items whose CommandError was swallowed, in order
    save_nprint,  \* self.args.save_nprint
    dest,         \* item -> the npt_file make_output_path computes for it
    disk,         \* the npt files that exist under the output directory
    writes,       \* history: items in the order their calls wrote npt_file
    collided,     \* the item make_output_path raised FileExistsError for
                  \* (0: none)
    \* PrimedIterator.prime
    p_input,      \* history: the elements of the iterator given to prime
    p_default,    \* prime's `default` argument
    p_iterator,   \* the elements `iterator` has yet to give
    p_retrieved,  \* history: number of elements taken from `iterator`
    p_chain,      \* what itertools.chain has yet to give of (first,)
    p_result,     \* what prime returned or raised
    p_delivered,  \* history: the elements the returned iterator has given
    p_pc,         \* "init", "primed", "end"
    \* Net.filter_pcaps
    labels,        \* the `labels` argument: given or None, and its index
    sourceless,    \* neither args.pcap_file nor args.pcap_dir is given
    verbosity,     \* self.args.verbosity
    f_consumed,    \* history: the items taken from pcap_files, in order
    skipped_files, \* the deque skipped_files
    skipped_count, \* skipped_count
    f_yielded,     \* history: the (pcap_file, npt_file) pairs yielded
    npt_exists,    \* the npt paths that exist
    f_report,      \* what the skip report printed
    f_pc           \* "run", "done", "raised"

pipeline == <<total, concurrency, queue_max, drawn, exhausted, task,
              workQueue, futures, completed, future, pc, submits, finished,
              collectedAt, yielded, absorbed, save_nprint, dest, disk,
              writes, collided>>

priming == <<p_input, p_default, p_iterator, p_retrieved, p_chain,
             p_result, p_delivered, p_pc>>

filtering == <<labels, sourceless, verbosity, f_consumed, skipped_files,
               skipped_count, f_yielded, npt_exists, f_report, f_pc>>

vars == <<pipeline, priming, filtering>>

params == <<total, concurrency, queue_max, save_nprint, dest>>
history == <<submits, finished, collectedAt, yielded, absorbed>>
store == <<disk, writes, collided>>

Items == 1..total

\* States of a submitted call whose future is done with a result or with
\* execute.nprint.CommandError.
Settled == {"result", "CommandError"}

\* States of a submitted call whose future is done: execute_nprint may
\* also have raised another exception.
Ended == Settled \cup {"Error"}

Min(a, b) == IF a < b THEN a ELSE b

Range(s) == {s[k] : k \in 1..Len(s)}

Count(s, x) == Cardinality({k \in 1..Len(s) : s[k] = x})

Pos(s, x) == CHOOSE k \in 1..Len(s) : s[k] = x

Running == {i \in Items : task[i] = "running"}

----------------------------------------------------------------------------
\* ThreadPoolExecutor(max_workers=self.args.concurrency)
max_workers_oversized == concurrency + 1
max_workers_short == concurrency - 1
max_workers == concurrency

\* itertools.islice(file_stream, NPRINT_QUEUE_MAX)
FillLimit_offbyone == queue_max + 1
FillLimit == queue_max

\* itertools.islice(file_stream, 1)
TopOffLimit_none == 1 - 1
TopOffLimit_two == 1 + 1
TopOffLimit == 1

\* concurrent.futures.wait: the futures of fs that are finished
Done(fs) == {f \in fs : task[f] \in Ended}

\* concurrent.futures.wait: the second set it returns
NotDone_keepall(fs) == fs
NotDone_dropall(fs) == {}
NotDone(fs) == fs \ Done(fs)

\* `for future in completed`: the futures the loop may take next
\* (a set is iterated in no particular order)
ForCandidates_repoll == completed \cup Done(futures)
ForCandidates == completed

\* No iterator is being primed.
PrimingIdle ==
    /\ p_input = <<>>
    /\ p_default = "Empty"
    /\ p_iterator = <<>>
    /\ p_retrieved = 0
    /\ p_chain = <<>>
    /\ p_result = [kind |-> "none", value |-> "none"]
    /\ p_delivered = <<>>
    /\ p_pc = "idle"

\* filter_pcaps is not being looked at on its own.
FilteringIdle ==
    /\ labels = [given |-> FALSE, index |-> {}]
    /\ sourceless = FALSE
    /\ verbosity = 0
    /\ f_consumed = <<>>
    /\ skipped_files = <<>>
    /\ skipped_count = 0
    /\ f_yielded = <<>>
    /\ npt_exists = {}
    /\ f_report = [count |-> 0, files |-> <<>>, more |-> FALSE]
    /\ f_pc = "idle"

\* No pipeline is running.
PipelineIdle ==
    /\ total = 0
    /\ concurrency = 1
    /\ queue_max = 1
    /\ drawn = 0
    /\ exhausted = FALSE
    /\ task = <<>>
    /\ workQueue = <<>>
    /\ futures = {}
    /\ completed = {}
    /\ future = 0
    /\ pc = "idle"
    /\ submits = <<>>
    /\ finished = <<>>
    /\ collectedAt = <<>>
    /\ yielded = <<>>
    /\ absorbed = <<>>
    /\ dest = <<>>
    /\ disk = {}
    /\ writes = <<>>
    /\ collided = 0

TypeOK ==
    /\ total \in 0..MaxItems
    /\ concurrency \in 1..MaxConcurrency
    /\ queue_max \in 1..MaxQueue
    /\ drawn \in 0..total
    /\ exhausted \in BOOLEAN
    /\ task \in [Items -> {"unsubmitted", "queued", "running"} \cup Ended]
    /\ futures \subseteq Items
    /\ completed \subseteq Items
    /\ future \in 0..total
    /\ pc \in {"start", "fill", "while", "for", "result", "yield", "done",
              "shutdown", "raised", "closing", "closed", "idle"}
    /\ save_nprint \in BOOLEAN
    /\ dest \in [Items -> Items]
    /\ disk \subseteq Items
    /\ collided \in 0..total

Init ==
    /\ total \in 0..MaxItems
    /\ concurrency \in 1..MaxConcurrency
    /\ queue_max \in 1..MaxQueue
    /\ drawn = 0
    /\ exhausted = FALSE
    /\ task = [i \in Items |-> "unsubmitted"]
    /\ workQueue = <<>>
    /\ futures = {}
    /\ completed = {}
    /\ future = 0
    /\ pc = "start"
    /\ submits = [i \in Items |-> 0]
    /\ finished = <<>>
    /\ collectedAt = [i \in Items |-> 0]
    /\ yielded = <<>>
    /\ absorbed = <<>>
    /\ save_nprint = FALSE
    /\ dest = [i \in Items |-> i]
    /\ disk = {}
    /\ writes = <<>>
    /\ collided = 0
    /\ PrimingIdle
    /\ FilteringIdle

----------------------------------------------------------------------------
\* The caller.

\* next() on the generator: starts its body, or resumes it after a yield.
Pull ==
    /\ pc \in {"start", "yield"}
    /\ pc' = IF pc = "start" THEN "fill" ELSE "for"
    /\ UNCHANGED <<priming, filtering,
                   params, store, drawn, exhausted, task, workQueue, futures,
                   completed, future, history>>

----------------------------------------------------------------------------
\* The generator (coordinator).

\* make_output_path: with --save-nprint, an npt_path that exists is a
\* collision.
Collides(i) == save_nprint /\ dest[i] \in disk

\* The effect of drawing the next n items of file_stream and passing each
\* to executor.submit(self.execute_nprint, *args).
SubmitNext(n) ==
    LET new == (drawn + 1)..(drawn + n)
        seqNew == [k \in 1..n |-> drawn + k]
    IN  /\ drawn' = drawn + n
        /\ task' = [i \in Items |-> IF i \in new THEN "queued" ELSE task[i]]
        /\ workQueue' = workQueue \o seqNew
        /\ submits' = [i \in Items |-> IF i \in new THEN submits[i] + 1
                                                    ELSE submits[i]]
        /\ futures' = futures \cup new

\* One turn of the set comprehension of the initial fill: one more item is
\* drawn and submitted.
FillSubmit ==
    /\ pc = "fill"
    /\ Cardinality(futures) < FillLimit
    /\ drawn < total
    /\ ~Collides(drawn + 1)
    /\ SubmitNext(1)
    /\ UNCHANGED <<priming, filtering,
                   params, store, exhausted, completed, future, pc, finished,
                   collectedAt, yielded, absorbed>>

\* The initial fill ends: islice has given FillLimit items, or file_stream
\* raised StopIteration first.
FillEnd ==
    /\ pc = "fill"
    /\ \/ /\ Cardinality(futures) >= FillLimit
          /\ UNCHANGED exhausted
       \/ /\ Cardinality(futures) < FillLimit
          /\ drawn = total
          /\ exhausted' = TRUE
    /\ pc' = "while"
    /\ UNCHANGED <<priming, filtering,
                   params, store, drawn, task, workQueue, futures, completed,
                   future, history>>

\* `while futures:` is true and concurrent.futures.wait(futures,
\* FIRST_COMPLETED) returns: it blocks until at least one future is done.
Wait ==
    /\ pc = "while"
    /\ futures # {}
    /\ Done(futures) # {}
    /\ completed' = Done(futures)
    /\ futures' = NotDone(futures)
    /\ collectedAt' = [i \in Items |-> IF i \in Done(futures)
                                          THEN Len(finished)
                                          ELSE collectedAt[i]]
    /\ pc' = "for"
    /\ UNCHANGED <<priming, filtering,
                   params, store, drawn, exhausted, task, workQueue, future,
                   submits, finished, yielded, absorbed>>

\* `while futures:` is false: the generator returns.
StreamEnd ==
    /\ pc = "while"
    /\ futures = {}
    /\ pc' = "done"
    /\ UNCHANGED <<priming, filtering,
                   params, store, drawn, exhausted, task, workQueue, futures,
                   completed, future, history>>

\* The for loop takes the next completed future and tops the pool off with
\* at most TopOffLimit items of file_stream.
ForNext ==
    /\ pc = "for"
    /\ \E f \in ForCandidates :
        LET n == Min(TopOffLimit, total - drawn)
        IN  /\ n > 0 => ~Collides(drawn + 1)
            /\ future' = f
            /\ completed' = completed \ {f}
            /\ SubmitNext(n)
            /\ exhausted' = (exhausted \/ n < TopOffLimit)
    /\ pc' = "result"
    /\ UNCHANGED <<priming, filtering,
                   params, store, finished, collectedAt, yielded, absorbed>>

\* The for loop is over: back to the loop test.
ForEnd ==
    /\ pc = "for"
    /\ ForCandidates = {}
    /\ future' = 0
    /\ pc' = "while"
    /\ UNCHANGED <<priming, filtering,
                   params, store, drawn, exhausted, task, workQueue, futures,
                   completed, history>>

\* future.result() returns and the generator yields it.
Yield ==
    /\ pc = "result"
    /\ task[future] = "result"
    /\ yielded' = Append(yielded, future)
    /\ pc' = "yield"
    /\ UNCHANGED <<priming, filtering,
                   params, store, drawn, exhausted, task, workQueue, futures,
                   completed, future, submits, finished, collectedAt,
                   absorbed>>

\* Where the generator goes after `except CommandError: pass`.
AfterCommandError_stop == "done"
AfterCommandError == "for"

\* future.result() raises execute.nprint.CommandError, which is swallowed.
Absorb ==
    /\ pc = "result"
    /\ task[future] = "CommandError"
    /\ absorbed' = Append(absorbed, future)
    /\ pc' = AfterCommandError
    /\ UNCHANGED <<priming, filtering,
                   params, store, drawn, exhausted, task, workQueue, futures,
                   completed, future, submits, finished, collectedAt,
                   yielded>>

----------------------------------------------------------------------------
\* The executor's worker threads.

\* An idle worker thread takes the oldest submitted call and starts
\* execute_nprint.
WorkerStart ==
    /\ workQueue # <<>>
    /\ Cardinality(Running) < max_workers
    /\ task' = [task EXCEPT ![Head(workQueue)] = "running"]
    /\ workQueue' = Tail(workQueue)
    /\ UNCHANGED <<priming, filtering,
                   params, store, drawn, exhausted, futures, completed, future,
                   pc, history>>

\* execute_nprint returns its NamedBytesIO, having written it to npt_file
\* under --save-nprint, or execute.nprint raises CommandError; the future
\* is set accordingly.
WorkerFinish ==
    /\ \E i \in Running, outcome \in Settled :
        /\ task' = [task EXCEPT ![i] = outcome]
        /\ finished' = Append(finished, i)
        /\ IF save_nprint /\ outcome = "result"
              THEN /\ disk' = disk \cup {dest[i]}
                   /\ writes' = Append(writes, i)
              ELSE UNCHANGED <<disk, writes>>
    /\ UNCHANGED <<priming, filtering,
                   params, collided, drawn, exhausted, workQueue, futures,
                   completed, future, pc, submits, collectedAt, yielded,
                   absorbed>>

Next ==
    \/ Pull
    \/ FillSubmit
    \/ FillEnd
    \/ Wait
    \/ StreamEnd
    \/ ForNext
    \/ ForEnd
    \/ Yield
    \/ Absorb
    \/ WorkerStart
    \/ WorkerFinish

Spec == Init /\ [][Next]_vars

\* The generator's own steps: they are taken whenever the caller's next()
\* is executing the generator body.
Coordinator ==
    FillSubmit \/ FillEnd \/ Wait \/ StreamEnd \/ ForNext \/ ForEnd
        \/ Yield \/ Absorb

\* The caller keeps pulling, the generator runs while it is being pulled,
\* a worker thread with work to take takes it, and every running call
\* eventually returns or raises.
LiveSpec ==
    /\ Spec
    /\ WF_vars(Pull)
    /\ WF_vars(Coordinator)
    /\ WF_vars(WorkerStart)
    /\ WF_vars(WorkerFinish)

----------------------------------------------------------------------------
\* Persistence (--save-nprint): destination collisions.

\* During the initial fill file_stream raises FileExistsError: the item's
\* npt_path exists. The error leaves the generator through the executor's
\* `with` block.
FillCollision ==
    /\ pc = "fill"
    /\ Cardinality(futures) < FillLimit
    /\ drawn < total
    /\ Collides(drawn + 1)
    /\ collided' = drawn + 1
    /\ pc' = "shutdown"
    /\ UNCHANGED <<priming, filtering,
                   params, disk, writes, drawn, exhausted, task, workQueue,
                   futures, completed, future, history>>

\* The same in a top-off, after the for loop has taken a completed future
\* and before its result is asked for.
TopOffCollision ==
    /\ pc = "for"
    /\ TopOffLimit > 0
    /\ drawn < total
    /\ Collides(drawn + 1)
    /\ \E f \in ForCandidates :
        /\ future' = f
        /\ completed' = completed \ {f}
    /\ collided' = drawn + 1
    /\ pc' = "shutdown"
    /\ UNCHANGED <<priming, filtering,
                   params, disk, writes, drawn, exhausted, task, workQueue,
                   futures, history>>

\* ThreadPoolExecutor.__exit__ is shutdown(wait=True): the submitted calls
\* it waits for.
ShutdownPending_nowait == {}
ShutdownPending == {i \in Items : submits[i] > 0 /\ task[i] \notin Ended}

\* ThreadPoolExecutor.__exit__ returns, and the error reaches the caller,
\* once every submitted call has run.
ShutdownEnd ==
    /\ pc = "shutdown"
    /\ ShutdownPending = {}
    /\ pc' = "raised"
    /\ UNCHANGED <<priming, filtering,
                   params, store, drawn, exhausted, task, workQueue,
                   futures, completed, future, history>>

\* The destinations of a run with --save-nprint: any assignment of
\* destinations to the filtered items, up to the names of the
\* destinations (an item has the destination of an earlier item or the
\* next unused one). make_output_directory has just created the output
\* directory, so it holds no file.
Destinations ==
    {d \in [Items -> Items] :
        \A i \in Items : \/ d[i] = 1
                          \/ \E j \in 1..(i - 1) : d[i] <= d[j] + 1}

PersistInit ==
    /\ total \in 0..MaxItems
    /\ concurrency \in 1..MaxConcurrency
    /\ queue_max \in 1..MaxQueue
    /\ drawn = 0
    /\ exhausted = FALSE
    /\ task = [i \in Items |-> "unsubmitted"]
    /\ workQueue = <<>>
    /\ futures = {}
    /\ completed = {}
    /\ future = 0
    /\ pc = "start"
    /\ submits = [i \in Items |-> 0]
    /\ finished = <<>>
    /\ collectedAt = [i \in Items |-> 0]
    /\ yielded = <<>>
    /\ absorbed = <<>>
    /\ save_nprint = TRUE
    /\ dest \in Destinations
    /\ disk = {}
    /\ writes = <<>>
    /\ collided = 0
    /\ PrimingIdle
    /\ FilteringIdle

PersistNext ==
    \/ Next
    \/ FillCollision
    \/ TopOffCollision
    \/ ShutdownEnd

PersistSpec == PersistInit /\ [][PersistNext]_vars

----------------------------------------------------------------------------
\* nprintml.util.PrimedIterator.prime, and the iteration of what it
\* returns.

Values == {"a", "b", "c"}

SeqsUpTo(n) == UNION {[1..k -> Values] : k \in 0..n}

PrimeInit ==
    /\ PipelineIdle
    /\ save_nprint = FALSE
    /\ FilteringIdle
    /\ p_input \in SeqsUpTo(MaxLen)
    /\ p_default \in {"Empty", "fallback"}
    /\ p_iterator = p_input
    /\ p_retrieved = 0
    /\ p_chain = <<>>
    /\ p_result = [kind |-> "none", value |-> "none"]
    /\ p_delivered = <<>>
    /\ p_pc = "init"

\* `if default is not Empty`
DefaultGiven_never == FALSE
DefaultGiven == p_default # "Empty"

\* itertools.chain((first,), iterator): what comes before `iterator`
ChainHead_dropped(first) == <<>>
ChainHead(first) == <<first>>

\* next(iterator) gives the first element: prime returns cls(first,
\* iterator).
PrimeWrap ==
    /\ p_pc = "init"
    /\ p_iterator # <<>>
    /\ p_iterator' = Tail(p_iterator)
    /\ p_retrieved' = p_retrieved + 1
    /\ p_chain' = ChainHead(Head(p_iterator))
    /\ p_result' = [kind |-> "PrimedIterator", value |-> Head(p_iterator)]
    /\ p_pc' = "primed"
    /\ UNCHANGED <<pipeline, filtering, p_input, p_default, p_delivered>>

\* next(iterator) raises StopIteration and a default was given: prime
\* returns it.
PrimeDefault ==
    /\ p_pc = "init"
    /\ p_iterator = <<>>
    /\ DefaultGiven
    /\ p_result' = [kind |-> "default", value |-> p_default]
    /\ p_pc' = "end"
    /\ UNCHANGED <<pipeline, filtering, p_input, p_default, p_iterator,
                   p_retrieved, p_chain, p_delivered>>

\* next(iterator) raises StopIteration and no default was given: prime
\* raises it again.
PrimeRaise ==
    /\ p_pc = "init"
    /\ p_iterator = <<>>
    /\ ~DefaultGiven
    /\ p_result' = [kind |-> "StopIteration", value |-> "none"]
    /\ p_pc' = "end"
    /\ UNCHANGED <<pipeline, filtering, p_input, p_default, p_iterator,
                   p_retrieved, p_chain, p_delivered>>

\* The consumer takes the next element of iter(primed), the chain: first
\* what is left of (first,), then the elements of `iterator`.
ChainNext ==
    /\ p_pc = "primed"
    /\ \/ /\ p_chain # <<>>
          /\ p_delivered' = Append(p_delivered, Head(p_chain))
          /\ p_chain' = Tail(p_chain)
          /\ UNCHANGED <<p_iterator, p_retrieved>>
       \/ /\ p_chain = <<>>
          /\ p_iterator # <<>>
          /\ p_delivered' = Append(p_delivered, Head(p_iterator))
          /\ p_iterator' = Tail(p_iterator)
          /\ p_retrieved' = p_retrieved + 1
          /\ UNCHANGED p_chain
    /\ UNCHANGED <<pipeline, filtering, p_input, p_default, p_result, p_pc>>

\* The chain is exhausted.
ChainEnd ==
    /\ p_pc = "primed"
    /\ p_chain = <<>>
    /\ p_iterator = <<>>
    /\ p_pc' = "end"
    /\ UNCHANGED <<pipeline, filtering, p_input, p_default, p_iterator,
                   p_retrieved, p_chain, p_result, p_delivered>>

PrimeNext ==
    \/ PrimeWrap
    \/ PrimeDefault
    \/ PrimeRaise
    \/ ChainNext
    \/ ChainEnd

PrimeSpec == PrimeInit /\ [][PrimeNext]_vars

----------------------------------------------------------------------------
\* Net.filter_pcaps over the pairs of Net.generate_pcaps, with
\* Net.make_output_path. A path is its name without the final suffix, and
\* that suffix; the output directory, the same for all, is left out.

Idents ==
    {[stem |-> "a", suffix |-> ".pcap"],
     [stem |-> "a", suffix |-> ".cap"],
     [stem |-> "b", suffix |-> ".pcap"]}

\* The pcap_file of the pair (None, None)
NoPath == [stem |-> "None", suffix |-> ""]

\* self.default_output
DefaultOutput == [stem |-> "netcap", suffix |-> ".npt"]

\* deque(maxlen=4)
SkippedMax == 4

\* pathlib's with_suffix: the final suffix is replaced.
with_suffix(path, suffix) == [stem |-> path.stem, suffix |-> suffix]

\* make_output_path: (self.output_directory / pcap_output)
\* .with_suffix('.npt')
npt_path(pcap_output) == with_suffix(pcap_output, ".npt")

\* not (labels is not None and str(pcap_output) not in labels.index)
Labelled_all(pcap_output) == TRUE
Labelled(pcap_output) == ~labels.given \/ pcap_output \in labels.index

\* skipped_files.append on a deque of maxlen 4: when it is full the oldest
\* element is discarded.
DequeAppend_keepfirst(d, x) == IF Len(d) < SkippedMax THEN Append(d, x) ELSE d
DequeAppend(d, x) ==
    IF Len(d) < SkippedMax THEN Append(d, x) ELSE Append(Tail(d), x)

FilterInit ==
    /\ PipelineIdle
    /\ PrimingIdle
    /\ save_nprint \in BOOLEAN
    /\ labels \in {[given |-> FALSE, index |-> {}]}
                    \cup {[given |-> TRUE, index |-> S] : S \in SUBSET Idents}
    /\ sourceless \in BOOLEAN
    /\ verbosity \in {0, 1}
    /\ f_consumed = <<>>
    /\ skipped_files = <<>>
    /\ skipped_count = 0
    /\ f_yielded = <<>>
    /\ npt_exists = {}
    /\ f_report = [count |-> 0, files |-> <<>>, more |-> FALSE]
    /\ f_pc = "run"

\* generate_pcaps: the pairs it may give next. Without sources it gives
\* (None, None) once; otherwise the given files and the *.pcap files found
\* under the given directories, whatever they are.
NextPcaps ==
    IF sourceless
      THEN IF f_consumed = <<>> THEN {NoPath} ELSE {}
      ELSE IF Len(f_consumed) < MaxFiles THEN Idents ELSE {}

\* generate_pcaps may be over.
PcapsMayEnd_anytime == TRUE
PcapsMayEnd == sourceless => f_consumed # <<>>

\* A pcap file missing from the labels is skipped.
FilterSkip ==
    /\ f_pc = "run"
    /\ \E x \in NextPcaps :
        /\ x # NoPath
        /\ ~Labelled(x)
        /\ f_consumed' = Append(f_consumed, x)
        /\ skipped_files' = DequeAppend(skipped_files, x)
        /\ skipped_count' = skipped_count + 1
    /\ UNCHANGED <<pipeline, priming, labels, sourceless, verbosity,
                   f_yielded, npt_exists, f_report, f_pc>>

\* A labelled pcap file is yielded with its npt path.
FilterYield ==
    /\ f_pc = "run"
    /\ \E x \in NextPcaps :
        /\ x # NoPath
        /\ Labelled(x)
        /\ ~(save_nprint /\ npt_path(x) \in npt_exists)
        /\ f_consumed' = Append(f_consumed, x)
        /\ f_yielded' = Append(f_yielded, <<x, npt_path(x)>>)
    /\ UNCHANGED <<pipeline, priming, labels, sourceless, verbosity,
                   skipped_files, skipped_count, npt_exists, f_report,
                   f_pc>>

\* make_output_path raises FileExistsError for a labelled pcap file.
FilterCollision ==
    /\ f_pc = "run"
    /\ \E x \in NextPcaps :
        /\ x # NoPath
        /\ Labelled(x)
        /\ save_nprint /\ npt_path(x) \in npt_exists
        /\ f_consumed' = Append(f_consumed, x)
    /\ f_pc' = "raised"
    /\ UNCHANGED <<pipeline, priming, labels, sourceless, verbosity,
                   skipped_files, skipped_count, f_yielded, npt_exists,
                   f_report>>

\* The pair (None, None) is passed on.
FilterNull ==
    /\ f_pc = "run"
    /\ NoPath \in NextPcaps
    /\ f_consumed' = Append(f_consumed, NoPath)
    /\ f_yielded' = Append(f_yielded, <<NoPath, NoPath>>)
    /\ UNCHANGED <<pipeline, priming, labels, sourceless, verbosity,
                   skipped_files, skipped_count, npt_exists, f_report,
                   f_pc>>

\* pcap_files is exhausted: the skip report is printed and the generator
\* returns.
FilterEnd ==
    /\ f_pc = "run"
    /\ PcapsMayEnd
    /\ f_report' =
          IF skipped_count > 0 /\ verbosity >= 1
            THEN [count |-> skipped_count, files |-> skipped_files,
                  more |-> skipped_count > Len(skipped_files)]
            ELSE f_report
    /\ f_pc' = "done"
    /\ UNCHANGED <<pipeline, priming, labels, sourceless, verbosity,
                   f_consumed, skipped_files, skipped_count, f_yielded,
                   npt_exists>>

\* execute_nprint, called with a yielded pair, writes its output under
\* --save-nprint.
ConsumerWrite ==
    /\ save_nprint
    /\ \E k \in 1..Len(f_yielded) :
        LET out_file == IF f_yielded[k][2] = NoPath THEN DefaultOutput
                                                     ELSE f_yielded[k][2]
        IN  /\ out_file \notin npt_exists
            /\ npt_exists' = npt_exists \cup {out_file}
    /\ UNCHANGED <<pipeline, priming, labels, sourceless, verbosity,
                   f_consumed, skipped_files, skipped_count, f_yielded,
                   f_report, f_pc>>

FilterNext ==
    \/ FilterSkip
    \/ FilterYield
    \/ FilterCollision
    \/ FilterNull
    \/ FilterEnd
    \/ ConsumerWrite

FilterSpec == FilterInit /\ [][FilterNext]_vars

----------------------------------------------------------------------------
\* Net.__call__: the stream of generate_npts is primed, with no default,
\* before NetResult is returned; the consumer of NetResult pulls the rest.

CallInit ==
    /\ total \in 0..MaxItems
    /\ concurrency \in 1..MaxConcurrency
    /\ queue_max \in 1..MaxQueue
    /\ drawn = 0
    /\ exhausted = FALSE
    /\ task = [i \in Items |-> "unsubmitted"]
    /\ workQueue = <<>>
    /\ futures = {}
    /\ completed = {}
    /\ future = 0
    /\ pc = "start"
    /\ submits = [i \in Items |-> 0]
    /\ finished = <<>>
    /\ collectedAt = [i \in Items |-> 0]
    /\ yielded = <<>>
    /\ absorbed = <<>>
    /\ save_nprint = FALSE
    /\ dest = [i \in Items |-> i]
    /\ disk = {}
    /\ writes = <<>>
    /\ collided = 0
    /\ FilteringIdle
    /\ p_input = <<>>
    /\ p_default = "Empty"
    /\ p_iterator = <<>>
    /\ p_retrieved = 0
    /\ p_chain = <<>>
    /\ p_result = [kind |-> "none", value |-> 0]
    /\ p_delivered = <<>>
    /\ p_pc = "init"

\* next(npt_stream): by prime, which starts the generator, or by the
\* consumer of the primed stream, which resumes it.
CallPull ==
    /\ pc = "start" => p_pc = "init"
    /\ pc = "yield" => p_pc = "primed"
    /\ Pull

\* prime's next(iterator) returns the generator's first result: prime
\* returns cls(first, iterator) and __call__ returns its NetResult.
PrimeFirst ==
    /\ p_pc = "init"
    /\ pc = "yield"
    /\ p_retrieved' = p_retrieved + 1
    /\ p_chain' = ChainHead(yielded[Len(yielded)])
    /\ p_result' = [kind |-> "PrimedIterator",
                    value |-> yielded[Len(yielded)]]
    /\ p_pc' = "primed"
    /\ UNCHANGED <<pipeline, filtering, p_input, p_default, p_iterator,
                   p_delivered>>

\* prime's next(iterator) raises StopIteration, the generator having
\* returned: without a default prime raises it again, out of __call__.
PrimeEmpty ==
    /\ p_pc = "init"
    /\ pc = "done"
    /\ ~DefaultGiven
    /\ p_result' = [kind |-> "StopIteration", value |-> 0]
    /\ p_pc' = "end"
    /\ UNCHANGED <<pipeline, filtering, p_input, p_default, p_iterator,
                   p_retrieved, p_chain, p_delivered>>

CallNext ==
    \/ CallPull
    \/ Coordinator
    \/ WorkerStart
    \/ WorkerFinish
    \/ PrimeFirst
    \/ PrimeEmpty

CallSpec == CallInit /\ [][CallNext]_vars

\* prime does call next, the generator runs while it is being pulled, the
\* workers work, and prime returns or raises once next has.
CallLiveSpec ==
    /\ CallSpec
    /\ WF_vars(p_pc = "init" /\ CallPull)
    /\ WF_vars(Coordinator)
    /\ WF_vars(WorkerStart)
    /\ WF_vars(WorkerFinish)
    /\ WF_vars(PrimeFirst \/ PrimeEmpty)

----------------------------------------------------------------------------
\* The ways out of generate_npts other than its return: an exception of
\* execute_nprint that is not CommandError, and the caller's close().

\* execute_nprint raises an exception other than CommandError (an OSError
\* of open or write, say); the future is set with it.
WorkerFail ==
    /\ \E i \in Running :
        /\ task' = [task EXCEPT ![i] = "Error"]
        /\ finished' = Append(finished, i)
    /\ UNCHANGED <<priming, filtering,
                   params, store, drawn, exhausted, workQueue, futures,
                   completed, future, pc, submits, collectedAt, yielded,
                   absorbed>>

\* Where the generator goes when future.result() raises an exception that
\* `except execute.nprint.CommandError` does not match.
AfterOtherError_swallowed == "for"
AfterOtherError == "shutdown"

\* future.result() raises the call's exception; it leaves the generator
\* through the executor's `with` block.
Propagate ==
    /\ pc = "result"
    /\ task[future] = "Error"
    /\ pc' = AfterOtherError
    /\ UNCHANGED <<priming, filtering,
                   params, store, drawn, exhausted, task, workQueue, futures,
                   completed, future, history>>

\* The caller closes the generator. Suspended at its yield, the generator
\* gets GeneratorExit there, which leaves through the executor's `with`
\* block; not yet started, it is just marked as finished.
Close ==
    /\ pc \in {"start", "yield"}
    /\ pc' = IF pc = "start" THEN "closed" ELSE "closing"
    /\ UNCHANGED <<priming, filtering,
                   params, store, drawn, exhausted, task, workQueue, futures,
                   completed, future, history>>

\* ThreadPoolExecutor.__exit__ returns and close() with it.
CloseEnd ==
    /\ pc = "closing"
    /\ ShutdownPending = {}
    /\ pc' = "closed"
    /\ UNCHANGED <<priming, filtering,
                   params, store, drawn, exhausted, task, workQueue, futures,
                   completed, future, history>>

StopNext ==
    \/ Next
    \/ WorkerFail
    \/ Propagate
    \/ ShutdownEnd
    \/ Close
    \/ CloseEnd

StopSpec == Init /\ [][StopNext]_vars

\* The generator runs while it is being pulled or closed, a worker thread
\* with work to take takes it, and every running call eventually returns
\* or raises. The caller need not pull again, nor close.
StopLiveSpec ==
    /\ StopSpec
    /\ WF_vars(Coordinator \/ Propagate \/ ShutdownEnd \/ CloseEnd)
    /\ WF_vars(WorkerStart)
    /\ WF_vars(WorkerFinish \/ WorkerFail)

----------------------------------------------------------------------------
\* Derived quantities the properties are stated with.

Admitted == {i \in Items : submits[i] > 0}

Drained == Range(yielded) \cup Range(absorbed)

Undrained == Admitted \ Drained

DrainedCount == Len(yielded) + Len(absorbed)

Suspended == pc \in {"start", "yield", "done"}

Succeeded(i) == task[i] = "result"

FinishedBefore(a, b) ==
    /\ a \in Range(finished)
    /\ b \in Range(finished)
    /\ Pos(finished, a) < Pos(finished, b)

\* wait returned a before b's call finished
CollectedBeforeFinish(a, b) ==
    /\ collectedAt[a] > 0
    /\ b \in Range(finished)
    /\ collectedAt[a] < Pos(finished, b)

----------------------------------------------------------------------------
\* C1: the number of execute_nprint calls running at the same time never
\* exceeds the concurrency limit C, in any reachable state.
C1_BoundedConcurrency == Cardinality(Running) <= concurrency

\* All C workers are busy while another admitted call waits in the
\* executor's queue, the caller has not come back for the next result,
\* and N > Q > C.
C1_Witness ==
    /\ Cardinality(Running) = concurrency
    /\ workQueue # <<>>
    /\ pc = "yield"
    /\ total > queue_max
    /\ queue_max > concurrency

\* C2 (as claimed): the number of items submitted to the pool and not yet
\* yielded or absorbed is at most Q at all times, the moment of each
\* top-off submission included.
C2_Original ==
    (total > queue_max /\ queue_max > concurrency)
        => Cardinality(Undrained) <= queue_max

\* C2 (amended): the number of items submitted and not yet yielded or
\* absorbed is at most Q + 1 at all times, and at most Q everywhere except
\* between a top-off submission and the yield or absorption of the
\* completed task that triggered it.
C2_AdmittedUndrained ==
    /\ Cardinality(Undrained) <= queue_max + 1
    /\ pc # "result" => Cardinality(Undrained) <= queue_max

\* A top-off has just been submitted with N > Q > C and Q + 1 items are
\* admitted and undrained.
C2_Witness ==
    /\ pc = "result"
    /\ Cardinality(Undrained) = queue_max + 1
    /\ total > queue_max
    /\ queue_max > concurrency

\* C3: the generator's `futures` set never holds more than Q tasks, after
\* the initial fill and after every top-off.
C3_PendingBound == Cardinality(futures) <= queue_max

\* A top-off has just brought `futures` back to Q tasks.
C3_Witness ==
    /\ pc = "result"
    /\ drawn > queue_max
    /\ Cardinality(futures) = queue_max
    /\ queue_max > 1

C5_ExactlyOnce ==
    \A i \in Items :
        /\ submits[i] <= 1
        /\ Count(yielded, i) + Count(absorbed, i) <= submits[i]
        /\ Count(yielded, i) > 0 => Succeeded(i)
        /\ Count(absorbed, i) > 0 => task[i] = "CommandError"
        /\ pc = "done" => Count(yielded, i) + Count(absorbed, i) = submits[i]

\* Every item of a run with N > Q has had its one outcome, of both kinds,
\* and the calls did not finish in submission order.
C5_Witness ==
    /\ pc = "done"
    /\ total > queue_max
    /\ \A i \in Items : Count(yielded, i) + Count(absorbed, i) = 1
    /\ \E i, j \in Items : Count(yielded, i) = 1 /\ Count(absorbed, j) = 1
    /\ \E i, j \in Items : i < j /\ FinishedBefore(j, i)

\* C6 (as claimed): for any two items whose calls both succeed, if A's call
\* finishes before B's then A's result is yielded before B's.
C6_Original ==
    \A a, b \in Items :
        (Succeeded(a) /\ Succeeded(b) /\ FinishedBefore(a, b)
            /\ b \in Range(yielded))
        => (a \in Range(yielded) /\ Pos(yielded, a) < Pos(yielded, b))

\* C6 (amended): for any two items whose calls both succeed, if A's call
\* finishes and is returned by a wait before B's call finishes, then A's
\* result is yielded before B's; tasks returned by the same wait are
\* yielded in no particular order.
C6_CompletionOrder ==
    \A a, b \in Items :
        (Succeeded(a) /\ Succeeded(b) /\ CollectedBeforeFinish(a, b)
            /\ b \in Range(yielded))
        => (a \in Range(yielded) /\ Pos(yielded, a) < Pos(yielded, b))

\* A was submitted after B, finished and was collected before B finished,
\* and was yielded before B.
C6_Witness ==
    \E a, b \in Items :
        /\ b < a
        /\ Succeeded(a) /\ Succeeded(b)
        /\ CollectedBeforeFinish(a, b)
        /\ a \in Range(yielded) /\ b \in Range(yielded)
        /\ Pos(yielded, a) < Pos(yielded, b)

\* C7 (as claimed): the number of items drawn from the filtered sequence is
\* at most min(Q, N) plus the number of completed tasks the generator has
\* yielded or absorbed.
C7_Original == drawn <= Min(queue_max, total) + DrainedCount

\* C7 (amended): after the initial fill the generator draws an item only
\* while the caller is pulling, never while it is suspended, and the number
\* of items drawn is at most min(Q, N) plus the number of completed tasks
\* drained plus one (the top-off for a completed task is drawn before that
\* task's result is yielded).
C7_Laziness ==
    /\ Suspended => drawn <= Min(queue_max, total) + DrainedCount
    /\ drawn <= Min(queue_max, total) + DrainedCount + 1
    /\ pc = "start" => drawn = 0

\* The caller has consumed a result and pulled again, and the generator has
\* drawn one item more than it has drained.
C7_Witness ==
    /\ pc = "result"
    /\ Len(yielded) > 0
    /\ drawn = Min(queue_max, total) + DrainedCount + 1

\* C8 (as claimed): the stream ends only when the filtered sequence is
\* exhausted and every submitted task has completed and been drained, and
\* once filled `futures` is never empty while undrawn items remain.
C8_Original ==
    /\ pc = "done" =>
        /\ exhausted /\ drawn = total
        /\ \A i \in Items : task[i] \in Settled /\ i \in Drained
    /\ (pc \notin {"start", "fill"} /\ futures = {}) => drawn = total

\* C8 (amended): the stream ends only when the filtered sequence is
\* exhausted and every submitted task has completed and been drained, and
\* `futures` is never empty at the loop test while undrawn items remain (it
\* is empty in between, after a wait that returned every pending task and
\* before the first top-off).
C8_Termination ==
    /\ pc = "done" =>
        /\ exhausted /\ drawn = total
        /\ \A i \in Items : task[i] \in Settled /\ i \in Drained
    /\ (pc \in {"while", "done"} /\ futures = {}) =>
        (exhausted /\ drawn = total)

\* The loop test finds `futures` empty after a run that needed top-offs.
C8_Witness ==
    /\ pc = "while"
    /\ futures = {}
    /\ total > queue_max
    /\ drawn = total

\* C9: if every call eventually finishes and the caller keeps pulling, every
\* filtered item is eventually admitted and drained and the stream ends,
\* and a wait on a non-empty `futures` always returns.
C9_Liveness ==
    /\ <>(pc = "done" /\ drawn = total /\ Drained = Items)
    /\ (pc = "while" /\ futures # {}) ~> (pc = "for")

\* The generator is blocked in wait: `futures` is full, none of its calls
\* has finished, and more items than Q are to come.
C9_Witness ==
    /\ pc = "while"
    /\ Cardinality(futures) = queue_max
    /\ Done(futures) = {}
    /\ Len(yielded) > 0
    /\ total > drawn

\* C10: a CommandError of one item's call does not fail any sibling, does
\* not stop the top-off for that completion and does not end the stream:
\* every other admitted item is still drained and every one that succeeds
\* is yielded.
C10_FailureIsolation ==
    /\ pc = "done" =>
        \A i \in Items :
            /\ submits[i] = 1
            /\ task[i] \in Settled
            /\ Succeeded(i) => i \in Range(yielded)
    /\ pc \notin {"start", "fill"} =>
        drawn >= Min(total, Min(queue_max, total) + Len(absorbed))

\* An item failed and was absorbed, and an item drawn by a later top-off
\* succeeded and was yielded before the stream ended.
C10_Witness ==
    /\ pc = "done"
    /\ \E i, j \in Items :
        /\ i \in Range(absorbed)
        /\ j \in Range(yielded)
        /\ j > queue_max
        /\ collectedAt[i] < collectedAt[j]

----------------------------------------------------------------------------
\* Persistence.

\* The number of calls that have written destination d.
WritesTo(d) == Cardinality({k \in 1..Len(writes) : dest[writes[k]] = d})

\* C11: with --save-nprint no destination path is written by more than one
\* invocation of a run, under every interleaving of the filtering and the
\* workers' writes.
C11_Original == save_nprint => \A i \in Items : WritesTo(dest[i]) <= 1

\* C12: with --save-nprint, when two filtered items of a run map to the
\* same destination, the second one's invocation is never submitted.
C12_Original ==
    save_nprint =>
        \A i, j \in Items : (i < j /\ dest[i] = dest[j]) => submits[j] = 0

\* C13: once make_output_path has raised the collision error for an item,
\* that item is not submitted, no later item is drawn or submitted, the
\* stream is ending with the error, and the file that exists at its
\* destination is not written any more.
C13_Step ==
    /\ collided' # 0 =>
        /\ submits'[collided'] = 0
        /\ drawn' = collided' - 1
        /\ \A j \in Items : j > collided' => submits'[j] = 0
        /\ pc' \in {"shutdown", "raised"}
    /\ collided # 0 => WritesTo(dest[collided])' = WritesTo(dest[collided])

C13_Original == [][C13_Step]_vars

----------------------------------------------------------------------------
\* Streaming, outputs on disk, top-off.

\* The results of finished calls that the generator has not yielded.
Held == {i \in Items : Succeeded(i) /\ i \notin Range(yielded)}

\* C17 (as claimed): for N >= 2 the number of completed results held and
\* not yet yielded is always strictly less than N.
C17_Original == total >= 2 => Cardinality(Held) < total

\* C17 (amended): the number of completed results held and not yet yielded
\* is at most min(N, Q + 1); it is strictly less than N whenever
\* N > Q + 1, and reaches N when N <= Q + 1.
C17_Streaming == Cardinality(Held) <= Min(total, queue_max + 1)

\* Q + 1 completed results are held, one taken by the for loop and Q in
\* `futures`, in a run of more than Q + 1 items.
C17_Witness ==
    /\ Cardinality(Held) = queue_max + 1
    /\ total > queue_max + 1
    /\ pc = "result"

\* C18: after a completed run without --save-nprint, the nPrint output of
\* every processed input exists on disk at its destination under
\* <output root>/nprint.
C18_Original ==
    (pc = "done" /\ ~save_nprint) =>
        \A i \in Range(yielded) : dest[i] \in disk

\* C19: each time the generator takes a completed task, succeeded or
\* failed, it draws and submits exactly one more item if any remains and
\* none otherwise; nothing else draws an item after the initial fill.
C19_Step ==
    pc \notin {"start", "fill"} =>
        IF pc = "for" /\ pc' = "result"
          THEN /\ drawn' = IF drawn < total THEN drawn + 1 ELSE drawn
               /\ drawn < total =>
                    /\ submits'[drawn'] = 1
                    /\ drawn' \in futures'
               /\ drawn = total => futures' = futures
          ELSE /\ drawn' = drawn
               /\ futures' \subseteq futures

C19_TopOff == [][C19_Step]_vars

\* The top-off for a task that failed with CommandError has just drawn and
\* submitted one item.
C19_Witness ==
    /\ pc = "result"
    /\ task[future] = "CommandError"
    /\ drawn > queue_max
    /\ drawn \in futures
    /\ submits[drawn] = 1
    /\ DrainedCount + queue_max + 1 = drawn

----------------------------------------------------------------------------
\* PrimedIterator.prime.

\* C15: for an iterator of one or more elements, the iterator prime
\* returns delivers exactly the original elements in the original order,
\* none lost and none duplicated, and when prime returns exactly one
\* element has been taken from the underlying iterator.
C15_RoundTrip ==
    Len(p_input) >= 1 =>
        /\ p_pc \in {"primed", "end"} =>
            /\ p_result.kind = "PrimedIterator"
            /\ p_delivered \o p_chain \o p_iterator = p_input
            /\ p_retrieved = Len(p_input) - Len(p_iterator)
        /\ (p_pc = "primed" /\ p_delivered = <<>>) => p_retrieved = 1
        /\ p_pc = "end" => p_delivered = p_input

\* A primed iterator over three elements, two of them equal, has been
\* consumed to its end.
C15_Witness ==
    /\ p_pc = "end"
    /\ Len(p_input) = 3
    /\ p_input[1] = p_input[3]
    /\ p_input[1] # p_input[2]
    /\ p_delivered = p_input

\* C16: priming an empty iterator returns the default when one is given
\* and raises StopIteration when none is; in neither case is a
\* PrimedIterator returned.
C16_EmptyPrime ==
    (p_pc = "end" /\ p_input = <<>>) =>
        /\ p_default # "Empty" =>
                p_result = [kind |-> "default", value |-> p_default]
        /\ p_default = "Empty" =>
                p_result = [kind |-> "StopIteration", value |-> "none"]
        /\ p_delivered = <<>>
        /\ p_retrieved = 0

\* An empty iterator has been primed with a default and the default came
\* back.
C16_Witness ==
    /\ p_pc = "end"
    /\ p_input = <<>>
    /\ p_default = "fallback"
    /\ p_result = [kind |-> "default", value |-> "fallback"]

----------------------------------------------------------------------------
\* Label filtering and skip accounting, under FilterSpec.

\* The pcap files of the yielded pairs with a real path, in order.
YieldedFiles ==
    SelectSeq([k \in 1..Len(f_yielded) |-> f_yielded[k][1]],
              LAMBDA x : x # NoPath)

\* A real path that no label set excludes.
InLabels(x) == x # NoPath /\ (labels.given => x \in labels.index)

\* A real path that the label set excludes.
Absent(x) == x # NoPath /\ labels.given /\ x \notin labels.index

\* The items make_output_path returned for: all but the one it raised for.
Returned ==
    IF f_pc = "raised" THEN SubSeq(f_consumed, 1, Len(f_consumed) - 1)
                       ELSE f_consumed

\* C14 as stated: an item with a real path is passed on with a destination
\* if and only if no label set is supplied or its identity is in the label
\* set, skipped items get no destination and are not passed on, and distinct
\* surviving identities get distinct destinations.
C14_Original ==
    /\ YieldedFiles = SelectSeq(f_consumed, InLabels)
    /\ \A k \in 1..Len(f_yielded) : ~Absent(f_yielded[k][1])
    /\ \A j, k \in 1..Len(f_yielded) :
        f_yielded[j][1] # f_yielded[k][1] =>
            f_yielded[j][2] # f_yielded[k][2]

\* C14: the items passed on are, in order, the items with a real path that
\* no label set excludes, up to the one make_output_path raised a collision
\* for; each is passed on with its identity with the final suffix replaced
\* by .npt, so two surviving identities have the same destination exactly
\* when they differ in the final suffix at most; a collision is raised only
\* under persistence for a surviving item whose destination exists.
C14_LabelFilter ==
    /\ YieldedFiles = SelectSeq(Returned, InLabels)
    /\ \A k \in 1..Len(f_yielded) :
        /\ ~Absent(f_yielded[k][1])
        /\ f_yielded[k][1] # NoPath =>
              f_yielded[k][2] =
                  [stem |-> f_yielded[k][1].stem, suffix |-> ".npt"]
    /\ \A j, k \in 1..Len(f_yielded) :
        f_yielded[j][2] = f_yielded[k][2] <=>
            f_yielded[j][1].stem = f_yielded[k][1].stem
    /\ f_pc = "raised" =>
        /\ save_nprint
        /\ InLabels(f_consumed[Len(f_consumed)])
        /\ [stem |-> f_consumed[Len(f_consumed)].stem, suffix |-> ".npt"]
              \in npt_exists

\* A label set is supplied, an item was skipped, and two surviving
\* identities that differ in the final suffix were passed on.
C14_Witness ==
    /\ f_pc = "done"
    /\ labels.given
    /\ skipped_count > 0
    /\ \E j, k \in 1..Len(f_yielded) :
        /\ f_yielded[j][1] # f_yielded[k][1]
        /\ f_yielded[j][2] = f_yielded[k][2]

\* The skipped items, in order.
SkippedAll == SelectSeq(f_consumed, Absent)

\* The last n elements of s, or all of s.
LastOf(s, n) == SubSeq(s, Len(s) - Min(n, Len(s)) + 1, Len(s))

\* C20 as stated: the skip count is the number of items skipped, at most 4
\* identities are retained, and once 4 are retained a further skipped item
\* leaves the retained sample unchanged: the sample is the first 4 skipped.
C20_Original ==
    /\ skipped_count = Len(SkippedAll)
    /\ Len(skipped_files) <= 4
    /\ skipped_files = SubSeq(SkippedAll, 1, Min(4, Len(SkippedAll)))

\* C20: the skip count is the number of items skipped, at most 4
\* identities are retained, and the retained sample is the last 4 skipped
\* items in order (all of them while there are fewer): once 4 are retained,
\* a further skipped item is retained and the oldest one is dropped. The
\* report, when printed, gives the count, the sample and whether more were
\* skipped than retained.
C20_SkipAccounting ==
    /\ skipped_count = Len(SkippedAll)
    /\ Len(skipped_files) <= 4
    /\ skipped_files = LastOf(SkippedAll, 4)
    /\ f_pc = "done" /\ verbosity >= 1 /\ skipped_count > 0 =>
          f_report = [count |-> Len(SkippedAll),
                      files |-> LastOf(SkippedAll, 4),
                      more |-> Len(SkippedAll) > 4]

\* More than 4 items were skipped, the first is not among the retained
\* ones, and the report was printed.
C20_Witness ==
    /\ f_pc = "done"
    /\ verbosity >= 1
    /\ skipped_count > 4
    /\ SkippedAll[1] \notin Range(skipped_files)
    /\ f_report.more

\* C21: without explicit files and directories the enumerator gives exactly
\* one (None, None) pair; filter_pcaps passes it on as (None, None), with no
\* destination, whatever the label set contains; it is never skipped or
\* counted as skipped, no collision is raised and no skip report is
\* printed; so the stream the pipeline submits from has exactly one item.
C21_Sourceless ==
    sourceless =>
        /\ f_consumed \in {<<>>, <<NoPath>>}
        /\ f_yielded = [k \in 1..Len(f_consumed) |-> <<NoPath, NoPath>>]
        /\ skipped_count = 0
        /\ skipped_files = <<>>
        /\ f_pc \in {"run", "done"}
        /\ f_pc = "done" =>
            /\ f_consumed = <<NoPath>>
            /\ f_report = [count |-> 0, files |-> <<>>, more |-> FALSE]

\* A sourceless run with a label set, which cannot contain the pair's
\* identity, and verbosity 1 has passed its one pair on and ended.
C21_Witness ==
    /\ sourceless
    /\ labels.given
    /\ labels.index # {}
    /\ verbosity >= 1
    /\ f_pc = "done"
    /\ f_yielded = <<(<<NoPath, NoPath>>)>>

----------------------------------------------------------------------------
\* Priming in Net.__call__, under CallLiveSpec.

\* What C22 says of a state.
C22_State ==
    /\ p_result.kind = "StopIteration" =>
          /\ pc = "done"
          /\ yielded = <<>>
          /\ drawn = total
          /\ \A i \in Items : task[i] = "CommandError"
    /\ p_result.kind = "PrimedIterator" =>
          /\ yielded # <<>>
          /\ p_result.value = yielded[1]
    /\ p_result.kind \in {"none", "StopIteration", "PrimedIterator"}

\* C22: when the result stream is empty, because there is no filtered item
\* or because every call failed with CommandError, Net.__call__ raises
\* StopIteration at priming; it raises it in no other case, and never
\* returns a NetResult whose stream has no result.
C22_EmptyStream ==
    /\ []C22_State
    /\ (pc = "done" /\ yielded = <<>>) ~> (p_result.kind = "StopIteration")

\* Priming raised StopIteration after the calls of more than one item all
\* failed with CommandError.
C22_Witness ==
    /\ p_result.kind = "StopIteration"
    /\ total > 1
    /\ Len(absorbed) = total

----------------------------------------------------------------------------
\* Early stop and error propagation, under StopLiveSpec.

\* The admitted calls that have not finished.
Unfinished ==
    {i \in Items :
        submits[i] > 0 /\ task[i] \notin {"result", "CommandError", "Error"}}

\* No call goes back or is cancelled: a finished call keeps its outcome, a
\* running call runs or finishes, a queued call stays queued or runs.
NoCancel ==
    \A i \in Items :
        /\ task[i] \in {"result", "CommandError", "Error"} =>
              task'[i] = task[i]
        /\ task[i] = "running" =>
              task'[i] \in {"running", "result", "CommandError", "Error"}
        /\ task[i] = "queued" => task'[i] \in {"queued", "running"}
        /\ task[i] = "unsubmitted" => task'[i] \in {"unsubmitted", "queued"}

\* What C23 says of a state: at most Q admitted calls are unfinished when
\* the stream is closed, and close() has returned only if none is.
C23_State ==
    /\ pc = "closing" => Cardinality(Unfinished) <= queue_max
    /\ pc = "closed" => Unfinished = {}

\* What C23 says of a step: while the generator stays suspended at its
\* yield, and once it is closed, nothing is drawn, submitted or yielded,
\* and no call is cancelled.
C23_Step ==
    /\ NoCancel
    /\ (pc = "yield" /\ pc' = "yield") \/ pc \in {"closing", "closed"} =>
          /\ drawn' = drawn
          /\ submits' = submits
          /\ yielded' = yielded
          /\ absorbed' = absorbed
    /\ pc = "closing" => pc' \in {"closing", "closed"}
    /\ pc = "closed" => pc' = "closed"

\* C23: when the caller stops pulling, or closes the stream before it is
\* exhausted, no admitted call is cancelled; the workers run every admitted
\* call to its end (at most Q of them are unfinished at the close); no
\* further item is drawn or submitted; and close() returns, eventually, and
\* only when every admitted call has finished.
C23_EarlyStop ==
    /\ []C23_State
    /\ [][C23_Step]_vars
    /\ (pc = "closing") ~> (pc = "closed")
    /\ (pc = "yield") ~> (pc # "yield" \/ Unfinished = {})

\* The stream is being closed with Q admitted calls unfinished, one of
\* them not even started, and items left in file_stream.
C23_Witness ==
    /\ pc = "closing"
    /\ Cardinality(Unfinished) = queue_max
    /\ \E i \in Unfinished : task[i] = "queued"
    /\ drawn < total

\* What C24 says of a state: the error on its way to the caller is that of
\* the call being drained, which is neither yielded nor absorbed, and it
\* has reached the caller only if every admitted call has finished.
C24_State ==
    /\ pc \in {"shutdown", "raised"} =>
          /\ future \in Items
          /\ task[future] = "Error"
          /\ future \notin Range(yielded) \cup Range(absorbed)
    /\ pc = "raised" => Unfinished = {}

\* What C24 says of a step: a call's exception other than CommandError
\* leaves the generator when its future is drained, and from then on
\* nothing is drawn, submitted, yielded or absorbed.
C24_Step ==
    /\ (pc = "result" /\ task[future] = "Error" /\ pc' # pc) =>
          pc' = "shutdown"
    /\ pc \in {"result", "shutdown", "raised"} /\ task[future] = "Error" =>
          /\ drawn' = drawn
          /\ submits' = submits
          /\ yielded' = yielded
          /\ absorbed' = absorbed
    /\ pc = "shutdown" => pc' \in {"shutdown", "raised"}
    /\ pc = "raised" => pc' = "raised"

\* C24: an exception of a call that is not CommandError is not absorbed:
\* when the generator drains that call the exception propagates to the
\* caller, the stream ends there, no further item is drawn or submitted,
\* and the results of other admitted items not yet yielded are never
\* yielded.
C24_Propagation ==
    /\ []C24_State
    /\ [][C24_Step]_vars
    /\ (pc = "result" /\ task[future] = "Error") ~> (pc = "raised")

\* The exception has reached the caller while another admitted call has a
\* result that was not yielded and file_stream has items left.
C24_Witness ==
    /\ pc = "raised"
    /\ \E i \in Items : task[i] = "result" /\ i \notin Range(yielded)
    /\ drawn < total

====
